---- MODULE Spec2Model ----
(***************************************************************************)
(* Model of examples/feedback.rs: the session controller (main), the       *)
(* capture entry point (input_data_fn) and the playback entry point        *)
(* (output_data_fn), sharing one bounded single-producer/single-consumer   *)
(* sample channel and two mutex-guarded timing ledgers.                    *)
(*                                                                         *)
(* Samples: a captured sample is modelled by its capture sequence number   *)
(* (1, 2, 3, ...), so that reordering and duplication are observable; the  *)
(* value 0 is the zero sample (0.0) of the pre-fill and of silence.        *)
(*                                                                         *)
(* Arithmetic: line 112 is computed in f32 (24-bit significand, round to   *)
(* nearest, ties to even), the `as usize` cast of line 113 truncates       *)
(* toward zero, a negative value saturating to 0.  The requested           *)
(* latencies are whole milliseconds of moderate size: no f32 overflow or   *)
(* subnormal occurs, and the usize products of lines 113 and 116 stay far  *)
(* below usize::MAX, so they are plain products here.                      *)
(*                                                                         *)
(* The ring buffer (ringbuf::HeapRb) is a dependency, not code of this     *)
(* file: try_push and try_pop follow its contract (bounded FIFO, push      *)
(* fails when full, pop yields None when empty).  Whether HeapRb::new      *)
(* accepts a capacity of zero or panics depends on the crate's release;    *)
(* both outcomes are kept.                                                 *)
(***************************************************************************)
EXTENDS Integers, Sequences, FiniteSets, TLC

\* ------------------------------------------------------------------ bounds
MaxLatency == 2
MaxBlock == 2
MaxCaptured == 4
MaxRequested == 4

\* --------------------------------------------------------------- constants
\* the divisor 1_000.0 of line 112
MsPerSecond == 1000
\* bits of an f32 significand (f32::MANTISSA_DIGITS)
SignificandBits == 24

\* content of an output slot the entry point has not written yet
Stale == 0 - 1

\* requested latencies (ms): negative, zero, and up to MaxLatency
Latencies == {0 - 1} \cup (0 .. MaxLatency)
\* with 500 frames/s a latency of 1 ms is less than one frame
SampleRates == {500, 1500}
ChannelCounts == {1, 2}
\* readings of instant.elapsed()
Durations == {10}

\* configurations for the padding computation alone (SpecPad)
PadLatencies == {0 - 150, 0 - 1, 0, 1, 9, 10, 25, 100, 150, 500}
PadSampleRates == {8000, 44100, 48000, 96000}
PadChannelCounts == {1, 2, 6}

VARIABLES
    latency,            \* opt.latency, in ms
    sample_rate,        \* config.sample_rate.0
    channels,           \* config.channels
    main_pc,            \* position of the controller in main
    latency_frames,     \* line 112 (an f32)
    latency_samples,    \* line 113
    ring_cap,           \* capacity of the ring, fixed by HeapRb::new
    ring,               \* contents of the ring, oldest first
    prefill_i,          \* iterations of the pre-fill loop done
    input_stream,       \* "none", "built", "playing", "dropped"
    output_stream,
    input_instant,      \* capture closure: "None" or "Some"
    inputs,             \* capture ledger (durations)
    inputs_lock,        \* holder of the capture ledger's mutex
    in_pc,              \* position inside input_data_fn
    in_data,            \* samples of the capture block still to push
    output_fell_behind, \* per-invocation flag of input_data_fn
    output_instant,     \* playback closure: "None" or "Some"
    outputs,            \* playback ledger (durations)
    outputs_lock,       \* holder of the playback ledger's mutex
    out_pc,             \* position inside output_data_fn
    out_data,           \* the output block, slot by slot
    out_i,              \* slots of the output block visited so far
    input_fell_behind,  \* per-invocation flag of output_data_fn
    input_count,        \* line 192
    output_count,       \* line 193
    inputs_sum,         \* line 195
    outputs_sum,        \* line 196
    captured,           \* history: samples delivered to capture so far
    requested,          \* history: slots requested from playback so far
    pushed,             \* history: samples whose push succeeded, in order
    popped,             \* history: values popped successfully, in order
    in_diag,            \* history: "output stream fell behind" lines printed
    out_diag,           \* history: "input stream fell behind" lines printed
    in_calls,           \* history: invocations of input_data_fn begun
    out_calls,          \* history: invocations of output_data_fn begun
    in_fail,            \* history: failed pushes of the current capture invocation
    out_fail            \* history: empty pops of the current playback invocation

vars == <<latency, sample_rate, channels, main_pc, latency_frames, latency_samples, ring_cap,
          ring, prefill_i, input_stream, output_stream, input_instant, inputs,
          inputs_lock, in_pc, in_data, output_fell_behind, output_instant,
          outputs, outputs_lock, out_pc, out_data, out_i, input_fell_behind,
          input_count, output_count, inputs_sum, outputs_sum, captured,
          requested, pushed, popped, in_diag, out_diag, in_calls, out_calls,
          in_fail, out_fail>>

cfgVars == <<latency, sample_rate, channels>>
setupVars == <<latency_frames, latency_samples, ring_cap, prefill_i>>
streamVars == <<input_stream, output_stream>>
reportVars == <<input_count, output_count, inputs_sum, outputs_sum>>
inVars == <<input_instant, inputs, inputs_lock, in_pc, in_data,
            output_fell_behind, captured, pushed, in_diag, in_calls, in_fail>>
outVars == <<output_instant, outputs, outputs_lock, out_pc, out_data, out_i,
             input_fell_behind, requested, popped, out_diag, out_calls,
             out_fail>>

\* ------------------------------------------------------------- arithmetic
\* An f32 is [s, m, e] with value s * m * 2^e: s the sign (-1, 0, 1), m the
\* 24-bit significand (2^23 <= m < 2^24 unless the value is 0), e the exponent.
F32Zero == [s |-> 0, m |-> 0, e |-> 0]

RECURSIVE BitLen(_)
BitLen(n) == IF n = 0 THEN 0 ELSE 1 + BitLen(n \div 2)

RECURSIVE Normalize(_, _)
Normalize(m, e) ==
    IF m >= 2 ^ (SignificandBits - 1) THEN [m |-> m, e |-> e] ELSE Normalize(2 * m, e - 1)

\* round to nearest, ties to even: q the kept bits, rb the first dropped bit,
\* sticky whether any later dropped bit is set
RoundTiesEven(sign, q, rb, sticky, e) ==
    LET up == rb = 1 /\ (sticky \/ q % 2 = 1)
        r == IF up THEN q + 1 ELSE q
    IN  IF r = 2 ^ SignificandBits
            THEN [s |-> sign, m |-> r \div 2, e |-> e + 1]
            ELSE [s |-> sign, m |-> r, e |-> e]

\* an integer of fewer than 24 bits as f32 (exact)
F32FromInt(n) ==
    IF n = 0 THEN F32Zero
    ELSE LET a == IF n < 0 THEN 0 - n ELSE n
             nm == Normalize(a, 0)
         IN  [s |-> IF n < 0 THEN 0 - 1 ELSE 1, m |-> nm.m, e |-> nm.e]

\* long division: quotient bits are produced until q has 25 bits
RECURSIVE DivBits(_, _, _, _)
DivBits(q, r, d, e) ==
    IF q >= 2 ^ SignificandBits THEN [q |-> q, r |-> r, e |-> e]
    ELSE LET bit == IF 2 * r >= d THEN 1 ELSE 0
         IN  DivBits(2 * q + bit, 2 * r - bit * d, d, e - 1)

\* x / d in f32, d a positive integer of fewer than 24 bits
F32DivInt(x, d) ==
    IF x.s = 0 THEN F32Zero
    ELSE LET w == DivBits(x.m \div d, x.m % d, d, x.e)
         IN  RoundTiesEven(x.s, w.q \div 2, w.q % 2, w.r # 0, w.e + 1)

\* x * n in f32, n a positive integer of at most 18 bits; the 42-bit product
\* is H * 2^12 + Lo
F32MulInt(x, n) ==
    IF x.s = 0 THEN F32Zero
    ELSE LET a == x.m \div 4096
             b == x.m % 4096
             H == a * n + (b * n) \div 4096
             Lo == (b * n) % 4096
             sh == BitLen(H) - 12
         IN  IF sh = 0 THEN [s |-> x.s, m |-> H * 4096 + Lo, e |-> x.e]
             ELSE IF sh <= 12
                 THEN RoundTiesEven(x.s,
                                    H * 2 ^ (12 - sh) + Lo \div 2 ^ sh,
                                    (Lo \div 2 ^ (sh - 1)) % 2,
                                    Lo % 2 ^ (sh - 1) # 0,
                                    x.e + sh)
                 ELSE RoundTiesEven(x.s,
                                    H \div 2 ^ (sh - 12),
                                    (H \div 2 ^ (sh - 13)) % 2,
                                    H % 2 ^ (sh - 13) # 0 \/ Lo # 0,
                                    x.e + sh)

\* line 112: (opt.latency / 1_000.0) * config.sample_rate.0 as f32
LatencyFrames(ms, rate) == F32MulInt(F32DivInt(F32FromInt(ms), MsPerSecond), rate)

\* `as usize` of an f32: truncation toward zero, negatives saturate to 0
AsUsize(x) ==
    IF x.s <= 0 THEN 0
    ELSE IF x.e >= 0 THEN x.m * 2 ^ x.e
    ELSE IF 0 - x.e >= SignificandBits THEN 0
    ELSE x.m \div 2 ^ (0 - x.e)

\* line 113: latency_frames as usize * config.channels as usize
LatencySamples(frames, ch) == AsUsize(frames) * ch

\* a capacity of half the padding (latency_samples / 2 for latency_samples * 2)
RingCapacity_Half(samples) == samples \div 2

\* the capacity handed to HeapRb::new
RingCapacity(samples) == samples * 2

\* ------------------------------------------------------------ the channel
\* TryPushOk comparing with <= : a ring takes one sample beyond its capacity
TryPushOk_Inclusive(r, cap) == Len(r) <= cap
\* Producer::try_push: Ok(()) with the sample appended, or Err (full)
TryPushOk(r, cap) == Len(r) < cap
\* RingAfterPush of a stack: the new sample goes in front of the others
RingAfterPush_Front(r, cap, s) == IF Len(r) < cap THEN <<s>> \o r ELSE r
RingAfterPush(r, cap, s) == IF TryPushOk(r, cap) THEN Append(r, s) ELSE r
\* Consumer::try_pop: Some(oldest) with the oldest removed, or None
TryPopSome(r) == Len(r) > 0
RingAfterPop(r) == IF TryPopSome(r) THEN Tail(r) ELSE r

\* Sum of a ledger (iter().sum::<Duration>())
RECURSIVE SumSeq(_)
SumSeq(s) == IF s = <<>> THEN 0 ELSE Head(s) + SumSeq(Tail(s))

\* ------------------------------------------------------------------- Init
\* main is at line 111; no ring, stream, timestamp or ledger entry exists yet
Start ==
    /\ main_pc = "latency"
    /\ latency_frames = F32Zero
    /\ latency_samples = 0
    /\ ring_cap = 0
    /\ ring = <<>>
    /\ prefill_i = 0
    /\ input_stream = "none"
    /\ output_stream = "none"
    /\ input_instant = "None"
    /\ inputs = <<>>
    /\ inputs_lock = "free"
    /\ in_pc = "idle"
    /\ in_data = <<>>
    /\ output_fell_behind = FALSE
    /\ output_instant = "None"
    /\ outputs = <<>>
    /\ outputs_lock = "free"
    /\ out_pc = "idle"
    /\ out_data = <<>>
    /\ out_i = 0
    /\ input_fell_behind = FALSE
    /\ input_count = 0
    /\ output_count = 0
    /\ inputs_sum = 0
    /\ outputs_sum = 0
    /\ captured = 0
    /\ requested = 0
    /\ pushed = <<>>
    /\ popped = <<>>
    /\ in_diag = 0
    /\ out_diag = 0
    /\ in_calls = 0
    /\ out_calls = 0
    /\ in_fail = 0
    /\ out_fail = 0

Init ==
    /\ latency \in Latencies
    /\ sample_rate \in SampleRates
    /\ channels \in ChannelCounts
    /\ Start

\* ------------------------------------------------------- the controller
\* lines 112-113: latency_frames, latency_samples
ComputeLatency ==
    /\ main_pc = "latency"
    /\ latency_frames' = LatencyFrames(latency, sample_rate)
    /\ latency_samples' = LatencySamples(latency_frames', channels)
    /\ main_pc' = "ring"
    /\ UNCHANGED <<cfgVars, ring_cap, ring, prefill_i, streamVars, reportVars,
                   inVars, outVars>>

\* lines 116-117: HeapRb::<f32>::new(latency_samples * 2) and split; a
\* capacity of zero is accepted or makes the constructor panic
NewRing ==
    /\ main_pc = "ring"
    /\ \/ /\ ring_cap' = RingCapacity(latency_samples)
          /\ main_pc' = "prefill"
       \/ /\ RingCapacity(latency_samples) = 0
          /\ ring_cap' = ring_cap
          /\ main_pc' = "panic_ring"
    /\ ring' = <<>>
    /\ UNCHANGED <<cfgVars, latency_frames, latency_samples, prefill_i, streamVars,
                   reportVars, inVars, outVars>>

\* Prefill counting frames instead of samples (for _ in 0..latency_frames)
Prefill_Frames ==
    /\ main_pc = "prefill"
    /\ \/ /\ prefill_i < AsUsize(latency_frames)
          /\ TryPushOk(ring, ring_cap)
          /\ ring' = RingAfterPush(ring, ring_cap, 0)
          /\ prefill_i' = prefill_i + 1
          /\ main_pc' = main_pc
       \/ /\ prefill_i < AsUsize(latency_frames)
          /\ ~TryPushOk(ring, ring_cap)
          /\ main_pc' = "panic_prefill"
          /\ UNCHANGED <<ring, prefill_i>>
       \/ /\ prefill_i >= AsUsize(latency_frames)
          /\ main_pc' = "build_input"
          /\ UNCHANGED <<ring, prefill_i>>
    /\ UNCHANGED <<cfgVars, latency_frames, latency_samples, ring_cap, streamVars,
                   reportVars, inVars, outVars>>

\* lines 120-124: one iteration of the pre-fill loop, or its exit
Prefill ==
    /\ main_pc = "prefill"
    /\ \/ /\ prefill_i < latency_samples
          /\ TryPushOk(ring, ring_cap)
          /\ ring' = RingAfterPush(ring, ring_cap, 0)
          /\ prefill_i' = prefill_i + 1
          /\ main_pc' = main_pc
       \/ /\ prefill_i < latency_samples
          /\ ~TryPushOk(ring, ring_cap)
          /\ main_pc' = "panic_prefill"
          /\ UNCHANGED <<ring, prefill_i>>
       \/ /\ prefill_i >= latency_samples
          /\ main_pc' = "build_input"
          /\ UNCHANGED <<ring, prefill_i>>
    /\ UNCHANGED <<cfgVars, latency_frames, latency_samples, ring_cap, streamVars,
                   reportVars, inVars, outVars>>

\* line 173: input_device.build_input_stream(..)?
BuildInput ==
    /\ main_pc = "build_input"
    /\ \/ /\ input_stream' = "built"
          /\ main_pc' = "build_output"
       \/ /\ input_stream' = input_stream
          /\ main_pc' = "err"
    /\ UNCHANGED <<cfgVars, setupVars, ring, output_stream, reportVars, inVars, outVars>>

\* line 174: output_device.build_output_stream(..)?; the early return drops
\* input_stream, which waits for a capture invocation in progress
BuildOutput ==
    /\ main_pc = "build_output"
    /\ \/ /\ output_stream' = "built"
          /\ input_stream' = input_stream
          /\ main_pc' = "play_input"
       \/ /\ in_pc = "idle"
          /\ input_stream' = "dropped"
          /\ output_stream' = output_stream
          /\ main_pc' = "err"
    /\ UNCHANGED <<cfgVars, setupVars, ring, reportVars, inVars, outVars>>

\* line 182: input_stream.play()?
PlayInput ==
    /\ main_pc = "play_input"
    /\ \/ /\ input_stream' = "playing"
          /\ output_stream' = output_stream
          /\ main_pc' = "play_output"
       \/ /\ in_pc = "idle"
          /\ out_pc = "idle"
          /\ input_stream' = "dropped"
          /\ output_stream' = "dropped"
          /\ main_pc' = "err"
    /\ UNCHANGED <<cfgVars, setupVars, ring, reportVars, inVars, outVars>>

\* line 183: output_stream.play()?
PlayOutput ==
    /\ main_pc = "play_output"
    /\ \/ /\ output_stream' = "playing"
          /\ input_stream' = input_stream
          /\ main_pc' = "sleep"
       \/ /\ in_pc = "idle"
          /\ out_pc = "idle"
          /\ input_stream' = "dropped"
          /\ output_stream' = "dropped"
          /\ main_pc' = "err"
    /\ UNCHANGED <<cfgVars, setupVars, ring, reportVars, inVars, outVars>>

\* DropInput without the explicit drops of lines 188-189: the streams live to
\* the end of main's scope and the report runs while they play
DropInput_Scope ==
    /\ main_pc = "sleep"
    /\ main_pc' = "counts"
    /\ UNCHANGED <<cfgVars, setupVars, ring, streamVars, reportVars, inVars, outVars>>

\* lines 185-188: sleep, then drop(input_stream); the drop returns once no
\* capture invocation is in progress, and none begins afterwards
DropInput ==
    /\ main_pc = "sleep"
    /\ in_pc = "idle"
    /\ input_stream' = "dropped"
    /\ main_pc' = "drop_output"
    /\ UNCHANGED <<cfgVars, setupVars, ring, output_stream, reportVars, inVars, outVars>>

\* line 189: drop(output_stream)
DropOutput ==
    /\ main_pc = "drop_output"
    /\ out_pc = "idle"
    /\ output_stream' = "dropped"
    /\ main_pc' = "counts"
    /\ UNCHANGED <<cfgVars, setupVars, ring, input_stream, reportVars, inVars, outVars>>

\* lines 192-193: the ledgers' lengths, each read under its lock
ReadCounts ==
    /\ main_pc = "counts"
    /\ inputs_lock = "free"
    /\ outputs_lock = "free"
    /\ input_count' = Len(inputs)
    /\ output_count' = Len(outputs)
    /\ main_pc' = "sums"
    /\ UNCHANGED <<cfgVars, setupVars, ring, streamVars, inputs_sum, outputs_sum,
                   inVars, outVars>>

\* lines 195-196: the ledgers' sums, each read under its lock
ReadSums ==
    /\ main_pc = "sums"
    /\ inputs_lock = "free"
    /\ outputs_lock = "free"
    /\ inputs_sum' = SumSeq(inputs)
    /\ outputs_sum' = SumSeq(outputs)
    /\ main_pc' = "print_input"
    /\ UNCHANGED <<cfgVars, setupVars, ring, streamVars, input_count, output_count,
                   inVars, outVars>>

\* lines 198-201: inputs_sum / input_count as u32; Duration's division by
\* zero panics
PrintInput ==
    /\ main_pc = "print_input"
    /\ main_pc' = IF input_count = 0 THEN "panic_report" ELSE "print_output"
    /\ UNCHANGED <<cfgVars, setupVars, ring, streamVars, reportVars, inVars, outVars>>

\* lines 202-207: outputs_sum / output_count as u32, then Ok(())
PrintOutput ==
    /\ main_pc = "print_output"
    /\ main_pc' = IF output_count = 0 THEN "panic_report" ELSE "done"
    /\ UNCHANGED <<cfgVars, setupVars, ring, streamVars, reportVars, inVars, outVars>>

\* ------------------------------------------- the capture entry point
\* the block of n samples delivered after `done` samples
Block(done, n) == [k \in 1 .. n |-> done + k]

\* CaptureBegin recording an interval on every invocation, the first
\* included (instant initialised to Some(Instant::now()) at line 126)
CaptureBegin_First ==
    /\ input_stream \in {"built", "playing"}
    /\ in_pc = "idle"
    /\ \E n \in 1 .. MaxBlock :
          /\ captured + n <= MaxCaptured
          /\ in_data' = Block(captured, n)
          /\ captured' = captured + n
    /\ in_calls' = in_calls + 1
    /\ in_fail' = 0
    /\ in_pc' = "lock"
    /\ UNCHANGED <<input_instant, output_fell_behind>>
    /\ UNCHANGED <<cfgVars, main_pc, setupVars, ring, streamVars, reportVars,
                   inputs, inputs_lock, pushed, in_diag, outVars>>

\* line 129-130: an invocation begins with its block; with no previous
\* timestamp, lines 133-134 follow at once
CaptureBegin ==
    /\ input_stream \in {"built", "playing"}
    /\ in_pc = "idle"
    /\ \E n \in 1 .. MaxBlock :
          /\ captured + n <= MaxCaptured
          /\ in_data' = Block(captured, n)
          /\ captured' = captured + n
    /\ in_calls' = in_calls + 1
    /\ in_fail' = 0
    /\ IF input_instant = "Some"
          THEN /\ in_pc' = "lock"
               /\ UNCHANGED <<input_instant, output_fell_behind>>
          ELSE /\ in_pc' = "push"
               /\ input_instant' = "Some"
               /\ output_fell_behind' = FALSE
    /\ UNCHANGED <<cfgVars, main_pc, setupVars, ring, streamVars, reportVars,
                   inputs, inputs_lock, pushed, in_diag, outVars>>

\* CaptureLock taking the playback ledger's mutex (outputs_clone.lock())
CaptureLock_OtherLedger ==
    /\ in_pc = "lock"
    /\ outputs_lock = "free"
    /\ outputs_lock' = "capture"
    /\ in_pc' = "ledger"
    /\ UNCHANGED <<cfgVars, main_pc, setupVars, ring, streamVars, reportVars,
                   input_instant, inputs, inputs_lock, in_data,
                   output_fell_behind, captured, in_calls, in_fail, pushed, in_diag,
                   output_instant, outputs, out_pc, out_data, out_i,
                   input_fell_behind, requested, out_calls, out_fail, popped, out_diag>>

\* line 131: inputs_clone.lock()
CaptureLock ==
    /\ in_pc = "lock"
    /\ inputs_lock = "free"
    /\ inputs_lock' = "capture"
    /\ in_pc' = "ledger"
    /\ UNCHANGED <<cfgVars, main_pc, setupVars, ring, streamVars, reportVars,
                   input_instant, inputs, in_data, output_fell_behind, captured, in_calls, in_fail,
                   pushed, in_diag, outVars>>

\* CaptureLedger with the flag declared outside the closure (beside
\* input_instant at line 126): it is not reset by a later invocation
CaptureLedger_Sticky ==
    /\ in_pc = "ledger"
    /\ \E elapsed \in Durations : inputs' = Append(inputs, elapsed)
    /\ inputs_lock' = "free"
    /\ input_instant' = "Some"
    /\ output_fell_behind' = output_fell_behind
    /\ in_pc' = "push"
    /\ UNCHANGED <<cfgVars, main_pc, setupVars, ring, streamVars, reportVars,
                   in_data, captured, in_calls, in_fail, pushed, in_diag, outVars>>

\* lines 131-134: push(instant.elapsed()), the guard's release, the new
\* timestamp and the flag's reset
CaptureLedger ==
    /\ in_pc = "ledger"
    /\ \E elapsed \in Durations : inputs' = Append(inputs, elapsed)
    /\ inputs_lock' = "free"
    /\ input_instant' = "Some"
    /\ output_fell_behind' = FALSE
    /\ in_pc' = "push"
    /\ UNCHANGED <<cfgVars, main_pc, setupVars, ring, streamVars, reportVars,
                   in_data, captured, in_calls, in_fail, pushed, in_diag, outVars>>

\* CapturePush with push_overwrite in place of try_push: a full ring drops its
\* oldest entry to take the new sample
CapturePush_Overwrite ==
    /\ in_pc = "push"
    /\ in_data # <<>>
    /\ ring' = IF TryPushOk(ring, ring_cap) \/ ring = <<>>
                  THEN RingAfterPush(ring, ring_cap, Head(in_data))
                  ELSE Append(Tail(ring), Head(in_data))
    /\ pushed' = IF ring_cap > 0 THEN Append(pushed, Head(in_data)) ELSE pushed
    /\ output_fell_behind' = (output_fell_behind \/ ~TryPushOk(ring, ring_cap))
    /\ in_fail' = IF TryPushOk(ring, ring_cap) THEN in_fail ELSE in_fail + 1
    /\ in_data' = Tail(in_data)
    /\ UNCHANGED <<cfgVars, main_pc, setupVars, streamVars, reportVars,
                   input_instant, inputs, inputs_lock, in_pc, captured, in_calls, in_diag,
                   outVars>>

\* CapturePush onto a growable queue: the sample is appended even when the
\* ring already holds ring_cap samples
CapturePush_Grow ==
    /\ in_pc = "push"
    /\ in_data # <<>>
    /\ ring' = Append(ring, Head(in_data))
    /\ pushed' = Append(pushed, Head(in_data))
    /\ output_fell_behind' = output_fell_behind
    /\ in_fail' = in_fail
    /\ in_data' = Tail(in_data)
    /\ UNCHANGED <<cfgVars, main_pc, setupVars, streamVars, reportVars,
                   input_instant, inputs, inputs_lock, in_pc, captured, in_calls, in_diag,
                   outVars>>

\* CapturePush unwrapping the result of try_push (as the pre-fill loop does):
\* a failed push panics inside the entry point
CapturePush_Unwrap ==
    /\ in_pc = "push"
    /\ in_data # <<>>
    /\ ring' = RingAfterPush(ring, ring_cap, Head(in_data))
    /\ pushed' = IF TryPushOk(ring, ring_cap) THEN Append(pushed, Head(in_data)) ELSE pushed
    /\ output_fell_behind' = output_fell_behind
    /\ in_fail' = IF TryPushOk(ring, ring_cap) THEN in_fail ELSE in_fail + 1
    /\ in_data' = Tail(in_data)
    /\ in_pc' = IF TryPushOk(ring, ring_cap) THEN in_pc ELSE "panicked"
    /\ UNCHANGED <<cfgVars, main_pc, setupVars, streamVars, reportVars,
                   input_instant, inputs, inputs_lock, captured, in_calls, in_diag,
                   outVars>>

\* CapturePush dropping the result of try_push (let _ = ..): a rejected
\* sample is lost without the flag being set
CapturePush_Silent ==
    /\ in_pc = "push"
    /\ in_data # <<>>
    /\ ring' = RingAfterPush(ring, ring_cap, Head(in_data))
    /\ pushed' = IF TryPushOk(ring, ring_cap) THEN Append(pushed, Head(in_data)) ELSE pushed
    /\ output_fell_behind' = output_fell_behind
    /\ in_fail' = IF TryPushOk(ring, ring_cap) THEN in_fail ELSE in_fail + 1
    /\ in_data' = Tail(in_data)
    /\ UNCHANGED <<cfgVars, main_pc, setupVars, streamVars, reportVars,
                   input_instant, inputs, inputs_lock, in_pc, captured, in_calls, in_diag,
                   outVars>>

\* lines 135-139: one iteration of the push loop
CapturePush ==
    /\ in_pc = "push"
    /\ in_data # <<>>
    /\ ring' = RingAfterPush(ring, ring_cap, Head(in_data))
    /\ pushed' = IF TryPushOk(ring, ring_cap) THEN Append(pushed, Head(in_data)) ELSE pushed
    /\ output_fell_behind' = (output_fell_behind \/ ~TryPushOk(ring, ring_cap))
    /\ in_fail' = IF TryPushOk(ring, ring_cap) THEN in_fail ELSE in_fail + 1
    /\ in_data' = Tail(in_data)
    /\ UNCHANGED <<cfgVars, main_pc, setupVars, streamVars, reportVars,
                   input_instant, inputs, inputs_lock, in_pc, captured, in_calls, in_diag,
                   outVars>>

\* lines 140-143: the diagnostic, and the return
CaptureEnd ==
    /\ in_pc = "push"
    /\ in_data = <<>>
    /\ in_diag' = IF output_fell_behind THEN in_diag + 1 ELSE in_diag
    /\ in_pc' = "idle"
    /\ UNCHANGED <<cfgVars, main_pc, setupVars, ring, streamVars, reportVars,
                   input_instant, inputs, inputs_lock, in_data,
                   output_fell_behind, captured, in_calls, in_fail, pushed, outVars>>

\* ------------------------------------------ the playback entry point
\* the block of n slots handed to the entry point: nothing written yet
Slots(n) == [k \in 1 .. n |-> Stale]

\* lines 148-149: an invocation begins with its block
PlaybackBegin ==
    /\ output_stream \in {"built", "playing"}
    /\ out_pc = "idle"
    /\ \E n \in 1 .. MaxBlock :
          /\ requested + n <= MaxRequested
          /\ out_data' = Slots(n)
          /\ requested' = requested + n
    /\ out_calls' = out_calls + 1
    /\ out_fail' = 0
    /\ out_i' = 0
    /\ IF output_instant = "Some"
          THEN /\ out_pc' = "lock"
               /\ UNCHANGED <<output_instant, input_fell_behind>>
          ELSE /\ out_pc' = "pop"
               /\ output_instant' = "Some"
               /\ input_fell_behind' = FALSE
    /\ UNCHANGED <<cfgVars, main_pc, setupVars, ring, streamVars, reportVars,
                   outputs, outputs_lock, popped, out_diag, inVars>>

\* line 150: outputs_clone.lock()
PlaybackLock ==
    /\ out_pc = "lock"
    /\ outputs_lock = "free"
    /\ outputs_lock' = "playback"
    /\ out_pc' = "ledger"
    /\ UNCHANGED <<cfgVars, main_pc, setupVars, ring, streamVars, reportVars,
                   output_instant, outputs, out_data, out_i, input_fell_behind,
                   requested, out_calls, out_fail, popped, out_diag, inVars>>

\* lines 150-153
PlaybackLedger ==
    /\ out_pc = "ledger"
    /\ \E elapsed \in Durations : outputs' = Append(outputs, elapsed)
    /\ outputs_lock' = "free"
    /\ output_instant' = "Some"
    /\ input_fell_behind' = FALSE
    /\ out_pc' = "pop"
    /\ UNCHANGED <<cfgVars, main_pc, setupVars, ring, streamVars, reportVars,
                   out_data, out_i, requested, out_calls, out_fail, popped, out_diag, inVars>>

\* PlaybackPop leaving the loop at the first None (while let Some(s) = ..):
\* the remaining slots are never visited
PlaybackPop_Break ==
    /\ out_pc = "pop"
    /\ out_i < Len(out_data)
    /\ ring' = RingAfterPop(ring)
    /\ out_data' = IF TryPopSome(ring)
                      THEN [out_data EXCEPT ![out_i + 1] = Head(ring)]
                      ELSE out_data
    /\ popped' = IF TryPopSome(ring) THEN Append(popped, Head(ring)) ELSE popped
    /\ input_fell_behind' = (input_fell_behind \/ ~TryPopSome(ring))
    /\ out_fail' = IF TryPopSome(ring) THEN out_fail ELSE out_fail + 1
    /\ out_i' = IF TryPopSome(ring) THEN out_i + 1 ELSE Len(out_data)
    /\ UNCHANGED <<cfgVars, main_pc, setupVars, streamVars, reportVars,
                   output_instant, outputs, outputs_lock, out_pc, requested, out_calls,
                   out_diag, inVars>>

\* PlaybackPop repeating the previous slot's value when the ring is empty
\* (hold the last sample) without recording the underflow
PlaybackPop_Hold ==
    /\ out_pc = "pop"
    /\ out_i < Len(out_data)
    /\ ring' = RingAfterPop(ring)
    /\ out_data' = [out_data EXCEPT ![out_i + 1] =
                        IF TryPopSome(ring) THEN Head(ring)
                        ELSE IF out_i > 0 THEN out_data[out_i] ELSE 0]
    /\ popped' = IF TryPopSome(ring) THEN Append(popped, Head(ring)) ELSE popped
    /\ input_fell_behind' = input_fell_behind
    /\ out_fail' = IF TryPopSome(ring) THEN out_fail ELSE out_fail + 1
    /\ out_i' = out_i + 1
    /\ UNCHANGED <<cfgVars, main_pc, setupVars, streamVars, reportVars,
                   output_instant, outputs, outputs_lock, out_pc, requested, out_calls,
                   out_diag, inVars>>

\* PlaybackPop reading the newest entry of the ring instead of the oldest
PlaybackPop_Newest ==
    /\ out_pc = "pop"
    /\ out_i < Len(out_data)
    /\ ring' = IF TryPopSome(ring) THEN SubSeq(ring, 1, Len(ring) - 1) ELSE ring
    /\ out_data' = [out_data EXCEPT ![out_i + 1] =
                        IF TryPopSome(ring) THEN ring[Len(ring)] ELSE 0]
    /\ popped' = IF TryPopSome(ring) THEN Append(popped, ring[Len(ring)]) ELSE popped
    /\ input_fell_behind' = (input_fell_behind \/ ~TryPopSome(ring))
    /\ out_fail' = IF TryPopSome(ring) THEN out_fail ELSE out_fail + 1
    /\ out_i' = out_i + 1
    /\ UNCHANGED <<cfgVars, main_pc, setupVars, streamVars, reportVars,
                   output_instant, outputs, outputs_lock, out_pc, requested, out_calls,
                   out_diag, inVars>>

\* PlaybackPop with an empty None arm (if let Some(s) = .. { *sample = s }
\* else { flag }): the slot keeps whatever the block held
PlaybackPop_Stale ==
    /\ out_pc = "pop"
    /\ out_i < Len(out_data)
    /\ ring' = RingAfterPop(ring)
    /\ out_data' = IF TryPopSome(ring)
                      THEN [out_data EXCEPT ![out_i + 1] = Head(ring)]
                      ELSE out_data
    /\ popped' = IF TryPopSome(ring) THEN Append(popped, Head(ring)) ELSE popped
    /\ input_fell_behind' = (input_fell_behind \/ ~TryPopSome(ring))
    /\ out_fail' = IF TryPopSome(ring) THEN out_fail ELSE out_fail + 1
    /\ out_i' = out_i + 1
    /\ UNCHANGED <<cfgVars, main_pc, setupVars, streamVars, reportVars,
                   output_instant, outputs, outputs_lock, out_pc, requested, out_calls,
                   out_diag, inVars>>

\* lines 154-162: one iteration of the pop loop
PlaybackPop ==
    /\ out_pc = "pop"
    /\ out_i < Len(out_data)
    /\ ring' = RingAfterPop(ring)
    /\ out_data' = [out_data EXCEPT ![out_i + 1] =
                        IF TryPopSome(ring) THEN Head(ring) ELSE 0]
    /\ popped' = IF TryPopSome(ring) THEN Append(popped, Head(ring)) ELSE popped
    /\ input_fell_behind' = (input_fell_behind \/ ~TryPopSome(ring))
    /\ out_fail' = IF TryPopSome(ring) THEN out_fail ELSE out_fail + 1
    /\ out_i' = out_i + 1
    /\ UNCHANGED <<cfgVars, main_pc, setupVars, streamVars, reportVars,
                   output_instant, outputs, outputs_lock, out_pc, requested, out_calls,
                   out_diag, inVars>>

\* lines 163-166: the diagnostic, and the return
PlaybackEnd ==
    /\ out_pc = "pop"
    /\ out_i >= Len(out_data)
    /\ out_diag' = IF input_fell_behind THEN out_diag + 1 ELSE out_diag
    /\ out_pc' = "idle"
    /\ UNCHANGED <<cfgVars, main_pc, setupVars, ring, streamVars, reportVars,
                   output_instant, outputs, outputs_lock, out_data, out_i,
                   input_fell_behind, requested, out_calls, out_fail, popped, inVars>>

\* ------------------------------------------------------------------- Next
Next ==
    \/ ComputeLatency
    \/ NewRing
    \/ Prefill
    \/ BuildInput
    \/ BuildOutput
    \/ PlayInput
    \/ PlayOutput
    \/ DropInput
    \/ DropOutput
    \/ ReadCounts
    \/ ReadSums
    \/ PrintInput
    \/ PrintOutput
    \/ CaptureBegin
    \/ CaptureLock
    \/ CaptureLedger
    \/ CapturePush
    \/ CaptureEnd
    \/ PlaybackBegin
    \/ PlaybackLock
    \/ PlaybackLedger
    \/ PlaybackPop
    \/ PlaybackEnd

Spec == Init /\ [][Next]_vars

\* lines 109-117 alone, over a wider range of configurations
InitPad ==
    /\ latency \in PadLatencies
    /\ sample_rate \in PadSampleRates
    /\ channels \in PadChannelCounts
    /\ Start

NextPad ==
    \/ ComputeLatency
    \/ NewRing

SpecPad == InitPad /\ [][NextPad]_vars

\* ------------------------------------------------ sustained overrun
\* The session of Spec with the capture device delivering faster than the
\* playback device consumes: a playback invocation begins only while the
\* slots requested stay within half of the samples captured, the capture
\* entry point is invoked again and again and runs to its end, and the
\* sleep of line 187 outlasts the samples of the run.  The padding is small
\* enough for the ring to fill within MaxCaptured samples.
InitOverrun ==
    /\ Init
    /\ LatencySamples(LatencyFrames(latency, sample_rate), channels)
           < MaxCaptured - (MaxCaptured \div 2)

PlaybackBeginSlow == PlaybackBegin /\ 2 * requested' <= captured

DropInputOverrun == DropInput /\ captured = MaxCaptured

NextOverrun ==
    \/ ComputeLatency
    \/ NewRing
    \/ Prefill
    \/ BuildInput
    \/ BuildOutput
    \/ PlayInput
    \/ PlayOutput
    \/ DropInputOverrun
    \/ DropOutput
    \/ ReadCounts
    \/ ReadSums
    \/ PrintInput
    \/ PrintOutput
    \/ CaptureBegin
    \/ CaptureLock
    \/ CaptureLedger
    \/ CapturePush
    \/ CaptureEnd
    \/ PlaybackBeginSlow
    \/ PlaybackLock
    \/ PlaybackLedger
    \/ PlaybackPop
    \/ PlaybackEnd

\* the audio host keeps invoking the capture entry point while its stream
\* lives, and an invocation runs to its return
FairCapture ==
    /\ WF_vars(CaptureBegin)
    /\ WF_vars(CaptureLock)
    /\ WF_vars(CaptureLedger)
    /\ WF_vars(CapturePush)
    /\ WF_vars(CaptureEnd)

SpecOverrun == InitOverrun /\ [][NextOverrun]_vars /\ FairCapture

\* ----------------------------------------------- sustained underrun
\* The session of Spec with the playback device consuming faster than the
\* capture device delivers: a capture invocation begins only while the
\* samples captured stay within half of the slots requested, the playback
\* entry point is invoked again and again and runs to its end, and the
\* sleep of line 187 outlasts the slots of the run.  The padding is small
\* enough for the ring to drain within MaxRequested slots.
InitUnderrun ==
    /\ Init
    /\ LatencySamples(LatencyFrames(latency, sample_rate), channels)
           < MaxRequested - (MaxRequested \div 2)

CaptureBeginSlow == CaptureBegin /\ 2 * captured' <= requested

DropInputUnderrun == DropInput /\ requested = MaxRequested

NextUnderrun ==
    \/ ComputeLatency
    \/ NewRing
    \/ Prefill
    \/ BuildInput
    \/ BuildOutput
    \/ PlayInput
    \/ PlayOutput
    \/ DropInputUnderrun
    \/ DropOutput
    \/ ReadCounts
    \/ ReadSums
    \/ PrintInput
    \/ PrintOutput
    \/ CaptureBeginSlow
    \/ CaptureLock
    \/ CaptureLedger
    \/ CapturePush
    \/ CaptureEnd
    \/ PlaybackBegin
    \/ PlaybackLock
    \/ PlaybackLedger
    \/ PlaybackPop
    \/ PlaybackEnd

\* the audio host keeps invoking the playback entry point while its stream
\* lives, and an invocation runs to its return
FairPlayback ==
    /\ WF_vars(PlaybackBegin)
    /\ WF_vars(PlaybackLock)
    /\ WF_vars(PlaybackLedger)
    /\ WF_vars(PlaybackPop)
    /\ WF_vars(PlaybackEnd)

SpecUnderrun == InitUnderrun /\ [][NextUnderrun]_vars /\ FairPlayback

\* ------------------------------------------------ fill, then drain
\* The session of Spec with the capture device delivering its samples
\* before the playback device asks for any, and no more than the padded
\* ring has room for: capture invocations begin only while nothing has been
\* requested and the samples stay within latency_samples, playback
\* invocations only when no capture invocation is in progress.
CaptureBeginFill ==
    /\ CaptureBegin
    /\ requested = 0
    /\ captured' <= latency_samples

PlaybackBeginDrain == PlaybackBegin /\ in_pc = "idle"

NextDrain ==
    \/ ComputeLatency
    \/ NewRing
    \/ Prefill
    \/ BuildInput
    \/ BuildOutput
    \/ PlayInput
    \/ PlayOutput
    \/ CaptureBeginFill
    \/ CaptureLock
    \/ CaptureLedger
    \/ CapturePush
    \/ CaptureEnd
    \/ PlaybackBeginDrain
    \/ PlaybackLock
    \/ PlaybackLedger
    \/ PlaybackPop
    \/ PlaybackEnd

SpecDrain == Init /\ [][NextDrain]_vars

\* ---------------------------------------------------- whole frames
\* The session of Spec with every block a whole number of frames, as the
\* audio host delivers them: the length of a capture block and of a
\* playback block is a multiple of the channel count.
CaptureBeginFrames == CaptureBegin /\ Len(in_data') % channels = 0

PlaybackBeginFrames == PlaybackBegin /\ Len(out_data') % channels = 0

NextFrames ==
    \/ ComputeLatency
    \/ NewRing
    \/ Prefill
    \/ BuildInput
    \/ BuildOutput
    \/ PlayInput
    \/ PlayOutput
    \/ DropInput
    \/ DropOutput
    \/ ReadCounts
    \/ ReadSums
    \/ PrintInput
    \/ PrintOutput
    \/ CaptureBeginFrames
    \/ CaptureLock
    \/ CaptureLedger
    \/ CapturePush
    \/ CaptureEnd
    \/ PlaybackBeginFrames
    \/ PlaybackLock
    \/ PlaybackLedger
    \/ PlaybackPop
    \/ PlaybackEnd

SpecFrames == Init /\ [][NextFrames]_vars

\* ============================================================ properties
Zeros(n) == [k \in 1 .. n |-> 0]
IsPrefix(s, t) == Len(s) <= Len(t) /\ s = SubSeq(t, 1, Len(s))
Range(s) == {s[k] : k \in 1 .. Len(s)}

\* a step that is one push attempt of the capture entry point
PushStep == in_pc = "push" /\ in_data # <<>> /\ in_data' = Tail(in_data)
\* a step that is one pop attempt of the playback entry point
PopStep == out_pc = "pop" /\ out_i < Len(out_data) /\ out_i' = out_i + 1
\* slots visited by the playback entry point since the session began
Visited == requested - (Len(out_data) - out_i)
\* push attempts made by the capture entry point since the session began
Attempted == captured - Len(in_data)
\* pre-filled zeros plus successful pushes minus successful pops
Occupancy == prefill_i + Len(pushed) - Len(popped)
\* the entry points are registered: the ring exists and is pre-filled
Registered == input_stream # "none"

\* C1: the values popped by the playback entry point are always a prefix of
\* latency_samples zeros followed by the successfully pushed samples in push
\* order (no reordering, no duplication), whatever overflowed or underflowed.
C1_PoppedIsPrefix == IsPrefix(popped, Zeros(latency_samples) \o pushed)

\* C1 witness: after an overflow and an underflow were reported, two captured
\* samples have come out behind the padding.
C1_Witness ==
    /\ in_diag > 0
    /\ out_diag > 0
    /\ latency_samples > 0
    /\ Len(popped) >= latency_samples + 2

\* C2: once the ring exists its capacity is latency_samples * 2 and stays so,
\* and the occupancy (pre-fill plus pushes minus pops) is the ring's length
\* and lies between 0 and the capacity.
C2_CapacityAndOccupancy ==
    /\ (main_pc \notin {"latency", "ring", "panic_ring"}
            => ring_cap = 2 * latency_samples)
    /\ Occupancy = Len(ring)
    /\ 0 <= Occupancy
    /\ Occupancy <= ring_cap

\* C2 witness: the ring is full again after pops, with a push rejected.
C2_Witness ==
    /\ ring_cap > 0
    /\ Occupancy = ring_cap
    /\ Len(popped) > 0
    /\ Len(pushed) < Attempted

\* C3: when a playback invocation has returned, every slot of its block has
\* been visited and written, each with a popped value or the zero sample.
C3_BlockFullyWritten ==
    (out_pc = "idle" /\ requested > 0)
        => /\ out_i = Len(out_data)
           /\ \A k \in 1 .. Len(out_data) :
                 /\ out_data[k] # Stale
                 /\ out_data[k] = 0 \/ out_data[k] \in Range(popped)

\* C3 witness: a returned block of two slots holding a captured sample and
\* then silence, while a capture invocation is in the middle of its pushes.
C3_Witness ==
    /\ out_pc = "idle"
    /\ Len(out_data) = 2
    /\ out_data[1] > 0
    /\ out_data[2] = 0
    /\ input_fell_behind
    /\ in_pc = "push"

\* C4: a push attempted on a full ring fails and changes nothing in the ring:
\* the contents and occupancy stay, the sample is dropped and the invocation's
\* flag is set; so the push after capacity-many unpopped entries fails.
C4_FullPushRejected ==
    [][(PushStep /\ Len(ring) = ring_cap)
          => (ring' = ring /\ pushed' = pushed /\ output_fell_behind')]_vars

\* C4 witness: a push has been rejected and the ring still holds exactly
\* capacity-many entries, before any pop.
C4_Witness ==
    /\ ring_cap > 0
    /\ Len(ring) = ring_cap
    /\ output_fell_behind
    /\ Len(pushed) < Attempted
    /\ popped = <<>>

\* C5: a pop on an empty ring yields None (the slot gets the zero sample and
\* the invocation's flag is set), leaves the ring empty and pops nothing; an
\* empty ring becomes non-empty only by a successful push.
C5_EmptyPopIsNone ==
    [][/\ (PopStep /\ ring = <<>>)
            => /\ ring' = <<>>
               /\ popped' = popped
               /\ input_fell_behind'
               /\ out_data'[out_i + 1] = 0
       /\ (Registered /\ ring = <<>> /\ ring' # <<>>)
            => Len(pushed') = Len(pushed) + 1]_vars

\* C5 witness: two pops in a row found the ring empty, after the padding and
\* a captured sample had been popped.
C5_Witness ==
    /\ ring = <<>>
    /\ out_i >= 2
    /\ Visited - Len(popped) >= 2
    /\ input_fell_behind
    /\ Len(popped) > latency_samples
    /\ latency_samples > 0

C7_PrefillNeverFull ==
    /\ main_pc # "panic_prefill"
    /\ (main_pc = "prefill" /\ prefill_i < latency_samples) => TryPushOk(ring, ring_cap)

\* C7 witness: the loop has pushed all its zeros for a two-channel padding
\* and is about to exit.
C7_Witness ==
    /\ main_pc = "prefill"
    /\ channels = 2
    /\ prefill_i = latency_samples
    /\ prefill_i >= 2
    /\ Len(ring) = prefill_i

\* C8: until the pre-fill has completed no stream exists and no entry point
\* has run; when the first entry point is about to be registered, and as
\* long as no invocation has begun, the ring holds exactly latency_samples
\* zeros.
C8_PrefilledBeforeRegistration ==
    /\ main_pc \in {"latency", "ring", "prefill", "panic_ring", "panic_prefill"}
          => /\ input_stream = "none" /\ output_stream = "none"
             /\ captured = 0 /\ requested = 0
             /\ pushed = <<>> /\ popped = <<>>
    /\ main_pc = "build_input" => ring = Zeros(latency_samples)
    /\ (Registered /\ captured = 0 /\ requested = 0) => ring = Zeros(latency_samples)

\* C8 witness: both streams are built, nothing has been invoked yet, and the
\* ring holds the padding of a two-channel configuration.
C8_Witness ==
    /\ input_stream = "built"
    /\ output_stream = "built"
    /\ captured = 0
    /\ requested = 0
    /\ channels = 2
    /\ Len(ring) >= 2

\* C9 (as claimed): the padding is the integer part of
\* latency / 1000 * sample_rate, times the channel count (0 frames for a
\* negative latency), the capacity is twice the padding, and 150 ms at
\* 48000 Hz with 2 channels give 14400 and 28800.
C9_PaddingFormula ==
    /\ (main_pc # "latency" /\ latency >= 0)
          => latency_samples = ((latency * sample_rate) \div MsPerSecond) * channels
    /\ (main_pc # "latency" /\ latency < 0) => latency_samples = 0
    /\ main_pc = "prefill" => ring_cap = 2 * latency_samples
    /\ (main_pc = "prefill" /\ latency = 150 /\ sample_rate = 48000 /\ channels = 2)
          => (latency_samples = 14400 /\ ring_cap = 28800)

\* C10 (as claimed): with a negative requested latency no stream is ever
\* built and no entry point is ever invoked.
C10_NegativeLatencyRejected ==
    latency < 0
        => /\ input_stream = "none"
           /\ output_stream = "none"
           /\ captured = 0
           /\ requested = 0

\* the controller is at or past the reading of the ledgers (lines 192-207)
Reporting == main_pc \in {"counts", "sums", "print_input", "print_output",
                          "done", "panic_report"}

\* C11 (as claimed): the report never aborts the controller: reducing a
\* ledger with zero recorded intervals does not divide by zero.
C11_ReportToleratesEmptyLedger == main_pc # "panic_report"

\* C12: whenever the controller is reading or reducing the ledgers (lines
\* 192-205) both streams are dropped, no capture or playback invocation is
\* in progress and none can begin.
C12_LedgersReadAfterStop ==
    Reporting
        => /\ input_stream = "dropped"
           /\ output_stream = "dropped"
           /\ in_pc = "idle"
           /\ out_pc = "idle"
           /\ ~ENABLED CaptureBegin
           /\ ~ENABLED PlaybackBegin

\* C12 witness: the controller has read the lengths of two non-empty
\* ledgers and is about to sum them, with samples still left to capture.
C12_Witness ==
    /\ main_pc = "sums"
    /\ input_count >= 1
    /\ output_count >= 1
    /\ captured < MaxCaptured
    /\ requested < MaxRequested

\* a step taken by the capture entry point
CaptureStep == in_pc' # in_pc \/ PushStep
\* a step taken by the playback entry point
PlaybackStep == out_pc' # out_pc \/ PopStep
\* captured samples whose push was attempted and failed
Dropped == (1 .. Attempted) \ Range(pushed)

\* C13: a capture invocation is always at one of its statements (it never
\* panics); its steps change nothing but the ring, the capture ledger and
\* its own state (the controller, the streams and the playback side are
\* untouched); after a failed push a new invocation can still begin, and a
\* push that finds space succeeds whatever failed before.
C13_CaptureNeverAborts ==
    /\ [](in_pc \in {"idle", "lock", "ledger", "push"})
    /\ []((in_pc = "idle" /\ input_stream \in {"built", "playing"}
               /\ captured < MaxCaptured) => ENABLED CaptureBegin)
    /\ [][CaptureStep =>
             /\ UNCHANGED <<cfgVars, main_pc, setupVars, streamVars, reportVars>>
             /\ UNCHANGED <<output_instant, outputs, outputs_lock, out_pc,
                            out_data, out_i, input_fell_behind, requested,
                            popped, out_diag>>]_vars
    /\ [][(PushStep /\ Len(ring) < ring_cap)
             => /\ ring' = Append(ring, Head(in_data))
                /\ pushed' = Append(pushed, Head(in_data))]_vars

\* C13 witness: a sample was dropped with its diagnostic, and a later
\* invocation has returned after pushing a later sample successfully.
C13_Witness ==
    /\ in_diag > 0
    /\ in_calls >= 2
    /\ in_pc = "idle"
    /\ input_stream = "playing"
    /\ \E d \in Dropped : \E s \in Range(pushed) : s > d

\* C14: with capture outpacing playback, once the session runs some capture
\* invocation ends with its overflow flag set (its diagnostic is printed);
\* a push fails exactly on an occupancy equal to the capacity, which it
\* leaves there; and the occupancy never exceeds the capacity.
C14_OverrunSaturates ==
    /\ (main_pc = "sleep") ~> (in_diag > 0)
    /\ [][(PushStep /\ in_fail' > in_fail)
             => /\ Occupancy = ring_cap
                /\ Occupancy' = ring_cap
                /\ output_fell_behind']_vars
    /\ [](Occupancy <= ring_cap)

\* C14 witness: during the session's sleep the overflow diagnostic has been
\* printed, playback has consumed something, and the ring is full again.
C14_Witness ==
    /\ main_pc = "sleep"
    /\ in_diag > 0
    /\ ring_cap > 0
    /\ Occupancy = ring_cap
    /\ Len(popped) > 0
    /\ out_calls >= 2

\* C15: with playback outpacing capture, once the session runs some
\* playback invocation ends with its underflow flag set (its diagnostic is
\* printed); every slot visited while the ring is exhausted gets the zero
\* sample and sets the flag; and a block keeps the length it was requested
\* with from the invocation's begin to its return, every slot visited.
C15_UnderrunSilence ==
    /\ (main_pc = "sleep") ~> (out_diag > 0)
    /\ [][(PopStep /\ ring = <<>>)
             => /\ out_data'[out_i + 1] = 0
                /\ out_fail' = out_fail + 1
                /\ input_fell_behind']_vars
    /\ [][(out_pc = "idle" /\ out_pc' # "idle")
             => (Len(out_data') = requested' - requested)]_vars
    /\ [][(out_pc # "idle") => (Len(out_data') = Len(out_data))]_vars
    /\ []((out_pc = "idle" /\ out_calls > 0)
               => (out_i = Len(out_data) /\ Stale \notin Range(out_data)))

\* C15 witness: during the session's sleep a playback block has returned
\* ending in silence, with the underflow diagnostic printed, after the
\* padding and a captured sample of a second capture invocation came out.
C15_Witness ==
    /\ main_pc = "sleep"
    /\ out_pc = "idle"
    /\ out_diag > 0
    /\ in_calls >= 2
    /\ latency_samples > 0
    /\ Len(popped) > latency_samples
    /\ Len(out_data) = 2
    /\ out_data[2] = 0

\* entries a ledger must hold after `calls` invocations have begun, the
\* current one being at `pc`
Intervals(calls, pc) ==
    IF calls = 0 THEN 0
    ELSE IF pc \in {"lock", "ledger"} THEN calls - 2
    ELSE calls - 1

\* C16: each ledger holds one entry per invocation of its side but the
\* first (the entry of an invocation is there once it has passed line 131,
\* resp. 150); a ledger only ever grows at its end; no capture step changes
\* the playback ledger and no playback step the capture ledger.
C16_LedgerCounts ==
    /\ [](Len(inputs) = Intervals(in_calls, in_pc))
    /\ [](Len(outputs) = Intervals(out_calls, out_pc))
    /\ [][IsPrefix(inputs, inputs') /\ IsPrefix(outputs, outputs')]_vars
    /\ [][CaptureStep => (outputs' = outputs)]_vars
    /\ [][PlaybackStep => (inputs' = inputs)]_vars

\* C16 witness: three capture invocations have left two entries, while the
\* second playback invocation is appending its first.
C16_Witness ==
    /\ in_calls = 3
    /\ in_pc = "idle"
    /\ Len(inputs) = 2
    /\ out_calls = 2
    /\ out_pc = "ledger"
    /\ Len(outputs) = 0

\* C17: while an invocation is in its loop its flag is set exactly when a
\* push (a pop) of this same invocation has failed; every sample of the
\* block is taken through try_push (every slot through try_pop) before the
\* return, whatever failed before; the diagnostic is printed only at the
\* return, once, and exactly when this invocation had a failure.
C17_FlagsPerInvocation ==
    /\ [](in_pc = "push" => (output_fell_behind <=> in_fail > 0))
    /\ [](out_pc = "pop" => (input_fell_behind <=> out_fail > 0))
    /\ [][(in_pc = "push" /\ in_data' # in_data)
             => (ring' = RingAfterPush(ring, ring_cap, Head(in_data)))]_vars
    /\ [][(in_pc = "push" /\ in_pc' = "idle")
             => /\ in_data = <<>>
                /\ in_diag' = in_diag + (IF in_fail > 0 THEN 1 ELSE 0)]_vars
    /\ [][(in_diag' # in_diag) => (in_pc = "push" /\ in_pc' = "idle")]_vars
    /\ [][(out_pc = "pop" /\ out_i' # out_i)
             => (ring' = RingAfterPop(ring) /\ out_i' = out_i + 1)]_vars
    /\ [][(out_pc = "pop" /\ out_pc' = "idle")
             => /\ out_i = Len(out_data)
                /\ out_diag' = out_diag + (IF out_fail > 0 THEN 1 ELSE 0)]_vars
    /\ [][(out_diag' # out_diag) => (out_pc = "pop" /\ out_pc' = "idle")]_vars

\* C17 witness: a capture invocation printed its diagnostic and a later one
\* has returned without a failure and without a diagnostic; on the playback
\* side a later invocation is in its loop with its flag clear after an
\* earlier one printed its diagnostic.
C17_Witness ==
    /\ in_calls >= 2
    /\ in_pc = "idle"
    /\ in_diag = 1
    /\ in_fail = 0
    /\ ~output_fell_behind
    /\ out_calls >= 2
    /\ out_pc = "pop"
    /\ out_diag = 1
    /\ out_fail = 0
    /\ ~input_fell_behind

Min(a, b) == IF a <= b THEN a ELSE b
\* what try_pop returned when it was None
None == 0 - 1
\* the ring after try_push of each sample of s in turn
RECURSIVE PushAll(_, _, _)
PushAll(r, cap, s) ==
    IF s = <<>> THEN r
    ELSE PushAll(RingAfterPush(r, cap, Head(s)), cap, Tail(s))
\* what n successive calls of try_pop return
RECURSIVE PopAll(_, _)
PopAll(r, n) ==
    IF n = 0 THEN <<>>
    ELSE <<IF TryPopSome(r) THEN Head(r) ELSE None>> \o PopAll(RingAfterPop(r), n - 1)

\* C18: with P = latency_samples zeros pre-filled and R samples pushed
\* (P + R within the capacity, every push succeeding) before any pop, the
\* k-th pop returns the k-th of the P zeros followed by the R samples in
\* push order for k <= P + R, and None for k > P + R: the first None is
\* pop P + R + 1, on an occupancy of 0.  With capacity 20, P = 10 and
\* R = 5 the occupancy is 15 and sixteen pops return ten zeros, samples 1
\* to 5 and None.
C18_PaddingThenSamples ==
    /\ Registered
          => /\ pushed = Block(0, Attempted)
             /\ popped = SubSeq(Zeros(latency_samples) \o pushed, 1,
                                Min(Visited, latency_samples + Len(pushed)))
             /\ Occupancy = latency_samples + Len(pushed) - Len(popped)
             /\ (Visited > Len(popped)) <=> (Visited > latency_samples + Len(pushed))
             /\ (Visited > Len(popped)) => (Occupancy = 0)
    /\ LET filled == PushAll(PushAll(<<>>, 20, Zeros(10)), 20, Block(0, 5))
       IN  /\ Len(filled) = 15
           /\ PopAll(filled, 16) = Zeros(10) \o Block(0, 5) \o <<None>>

\* C18 witness: two zeros and then a captured sample have been popped, and
\* the very next pop found the ring empty.
C18_Witness ==
    /\ latency_samples >= 2
    /\ Len(pushed) >= 1
    /\ Visited = latency_samples + Len(pushed) + 1
    /\ Visited - Len(popped) = 1
    /\ ring = <<>>
    /\ input_fell_behind

\* channel of the s-th captured sample, and of the k-th slot of a block,
\* when blocks are whole frames
SampleChannel(s) == (s - 1) % channels
SlotChannel(k) == (k - 1) % channels

\* C19 (as claimed): with whole-frame blocks, a captured sample found in an
\* output slot is in a slot of its own channel.
C19_FrameAlignment ==
    \A k \in 1 .. Len(out_data) :
        out_data[k] > 0 => SampleChannel(out_data[k]) = SlotChannel(k)

\* C20: when latency_samples is 0 the ring has capacity 0 and the pre-fill
\* pushes nothing; the ring stays empty, no push and no pop ever succeeds,
\* every slot written is silence, and every invocation that has returned
\* printed its diagnostic.
C20_ZeroCapacitySilence ==
    (main_pc # "latency" /\ latency_samples = 0)
        => /\ ring_cap = 0
           /\ prefill_i = 0
           /\ ring = <<>>
           /\ pushed = <<>>
           /\ popped = <<>>
           /\ \A k \in 1 .. Len(out_data) : out_data[k] \in {0, Stale}
           /\ in_pc = "idle" => in_diag = in_calls
           /\ out_pc = "idle" => out_diag = out_calls

\* C20 witness: with a latency of 0 ms the session is in its sleep, two
\* capture invocations have dropped all their samples and a playback
\* invocation has returned a block of silence.
C20_Witness ==
    /\ latency = 0
    /\ main_pc = "sleep"
    /\ in_pc = "idle"
    /\ in_calls >= 2
    /\ captured >= 3
    /\ out_pc = "idle"
    /\ out_data = <<0, 0>>
    /\ out_diag >= 1

====
